---------------------------- MODULE Spec2Model ----------------------------
(***************************************************************************)
(* A model of gravitas-rs: the Friction, Spring, Scroll and Pager          *)
(* simulations and the SpringSolution solver.                              *)
(*                                                                         *)
(* Numbers.  The program computes in f32.  The model computes on the grid  *)
(* of multiples of 1/Scale, with the three IEEE-754 special values kept    *)
(* apart (NaN, PInf, NInf): a value is an integer n standing for n/Scale,  *)
(* or one of the three specials.  Every arithmetic operator of the code    *)
(* is an operator here (FAdd, FMul, FDiv, Ln, Exp, Sqrt, ...) that rounds  *)
(* its exact result to the nearest grid point and follows IEEE-754 on the  *)
(* specials (x/0, 0/0, ln of a non-positive number, comparisons with NaN). *)
(* The model has one zero: it stands for +0.0.                             *)
(***************************************************************************)
EXTENDS Integers, Sequences, FiniteSets, TLC

\* One unit of the code's f32 is Scale grid steps.
Scale == 10000

\* The IEEE-754 specials, outside the range of the grid values.
NaN == 2147483647
PInf == 2147483646
NInf == -2147483646

is_nan(a) == a = NaN
is_finite(a) == a # NaN /\ a # PInf /\ a # NInf

\* A grid value for a whole number and a number of ten-thousandths.
Num(whole, frac) == whole * Scale + frac

AbsInt(n) == IF n < 0 THEN -n ELSE n
SignInt(n) == IF n < 0 THEN -1 ELSE IF n > 0 THEN 1 ELSE 0

(***************************************************************************)
(* Comparisons: every ordered comparison with NaN is false.                *)
(***************************************************************************)
FLt(a, b) == a # NaN /\ b # NaN /\ a < b
FGt(a, b) == a # NaN /\ b # NaN /\ a > b
FLe(a, b) == a # NaN /\ b # NaN /\ a <= b
FGe(a, b) == a # NaN /\ b # NaN /\ a >= b

(***************************************************************************)
(* Arithmetic.                                                             *)
(***************************************************************************)
FNeg(a) == IF a = NaN THEN NaN ELSE -a

FAbs(a) == IF a = NaN THEN NaN ELSE AbsInt(a)

FAdd(a, b) ==
    IF a = NaN \/ b = NaN THEN NaN
    ELSE IF a = PInf THEN (IF b = NInf THEN NaN ELSE PInf)
    ELSE IF a = NInf THEN (IF b = PInf THEN NaN ELSE NInf)
    ELSE IF b = PInf \/ b = NInf THEN b
    ELSE a + b

FSub(a, b) == FAdd(a, FNeg(b))

\* a * b / Scale for a, b >= 0, rounded to nearest, without leaving 32 bits.
MulAbs(a, b) ==
    LET ah == a \div Scale
        al == a % Scale
        bh == b \div Scale
        bl == b % Scale
    IN  ah * bh * Scale + ah * bl + al * bh + (al * bl + Scale \div 2) \div Scale

FMul(a, b) ==
    IF a = NaN \/ b = NaN THEN NaN
    ELSE IF ~is_finite(a) \/ ~is_finite(b)
         THEN (IF a = 0 \/ b = 0 THEN NaN
               ELSE IF SignInt(a) * SignInt(b) > 0 THEN PInf ELSE NInf)
    ELSE SignInt(a) * SignInt(b) * MulAbs(AbsInt(a), AbsInt(b))

\* The digits of r / b after the point, m the weight of the next digit
\* (0 <= r < b): long division, the last digit rounded.
RECURSIVE DivFrac(_, _, _)
DivFrac(r, b, m) ==
    IF m = 1 THEN (IF 2 * r >= b THEN 1 ELSE 0)
    ELSE LET r10 == r * 10
         IN  (r10 \div b) * (m \div 10) + DivFrac(r10 % b, b, m \div 10)

\* a * Scale / b for a >= 0, b > 0, rounded to nearest.
DivAbs(a, b) == (a \div b) * Scale + DivFrac(a % b, b, Scale)

FDiv(a, b) ==
    IF a = NaN \/ b = NaN THEN NaN
    ELSE IF ~is_finite(a)
         THEN (IF ~is_finite(b) THEN NaN
               ELSE IF SignInt(a) * (IF b < 0 THEN -1 ELSE 1) > 0 THEN PInf ELSE NInf)
    ELSE IF ~is_finite(b) THEN 0
    ELSE IF b = 0
         THEN (IF a = 0 THEN NaN ELSE IF a > 0 THEN PInf ELSE NInf)
    ELSE SignInt(a) * SignInt(b) * DivAbs(AbsInt(a), AbsInt(b))

(***************************************************************************)
(* f32::sqrt.                                                              *)
(***************************************************************************)
\* u * v <= a * Scale, for a >= 0 and u, v >= 0 at most 1 apart, without
\* leaving 32 bits.
LeProd(u, v, a) ==
    LET uh == u \div Scale
        ul == u % Scale
        vh == v \div Scale
        vl == v % Scale
    IN  IF uh > 0 /\ vh > (a \div Scale) \div uh THEN FALSE
        ELSE uh * vh * Scale + uh * vl + ul * vh
                 + (ul * vl + Scale - 1) \div Scale <= a

\* The largest r in lo..hi with r * r <= a * Scale (lo has it, hi + 1 has not).
RECURSIVE SqrtSearch(_, _, _)
SqrtSearch(a, lo, hi) ==
    IF lo >= hi THEN lo
    ELSE LET mid == (lo + hi + 1) \div 2
         IN  IF LeProd(mid, mid, a) THEN SqrtSearch(a, mid, hi)
             ELSE SqrtSearch(a, lo, mid - 1)

Sqrt(a) ==
    IF a = NaN \/ a < 0 THEN NaN
    ELSE IF a = PInf THEN PInf
    ELSE LET r == SqrtSearch(a, 0, IF a < Scale THEN Scale ELSE a)
         IN  IF LeProd(r, r + 1, a) THEN r + 1 ELSE r

(***************************************************************************)
(* f32::ln.  For a = m * 2^k with 1 <= m < 2,                              *)
(* ln a = k ln 2 + 2 atanh((m - 1) / (m + 1)), the atanh by its series.    *)
(***************************************************************************)
\* ln 2 in units of 1 / (100 * Scale).
Ln2 == 693147

\* 2 atanh(z) for 0 <= z <= 1/3, in units of 1 / (100 * Scale), z given in
\* the same units: 2 (z + z^3/3 + z^5/5 + z^7/7 + z^9/9).
Atanh2(z100) ==
    LET z == (z100 + 50) \div 100
        z2 == MulAbs(z, z)
        z3 == MulAbs(z, z2)
        z5 == MulAbs(z3, z2)
        z7 == MulAbs(z5, z2)
        z9 == MulAbs(z7, z2)
    IN  2 * z100 + (200 * (105 * z3 + 63 * z5 + 45 * z7 + 35 * z9) + 157) \div 315

\* a >= Scale: p = 2^k * Scale, found with p <= a < 2 p.
RECURSIVE LnUp(_, _, _)
LnUp(a, p, k) ==
    IF a < 2 * p
    THEN (k * Ln2 + Atanh2(DivFrac(a - p, a + p, 100 * Scale)) + 50) \div 100
    ELSE LnUp(a, 2 * p, k + 1)

\* 0 < a < Scale: b = 2^j * a, found with Scale <= b < 2 Scale.
RECURSIVE LnDown(_, _)
LnDown(b, j) ==
    IF b >= Scale
    THEN (Atanh2(DivFrac(b - Scale, b + Scale, 100 * Scale)) - j * Ln2 + 50) \div 100
    ELSE LnDown(2 * b, j + 1)

Ln(a) ==
    IF a = NaN \/ a < 0 THEN NaN
    ELSE IF a = 0 THEN NInf
    ELSE IF a = PInf THEN PInf
    ELSE IF a >= Scale THEN LnUp(a, Scale, 0)
    ELSE LnDown(a, 0)

(***************************************************************************)
(* E.powf(y) = e^y.  For y = n + f with n whole and 0 <= f < 1,            *)
(* e^y = e^n * e^f: e^n from a table, e^f by its series.                   *)
(***************************************************************************)
\* e^-1 .. e^-14 in units of 1 / (100 * Scale); smaller powers round to 0.
ExpNegTable ==
    <<367879, 135335, 49787, 18316, 6738, 2479, 912, 335, 123, 45, 17, 6, 2, 1>>

\* e^1 .. e^10 in units of 1 / Scale; larger powers are beyond the grid.
ExpPosTable ==
    <<27183, 73891, 200855, 545982, 1484132, 4034288, 10966332, 29809580,
      81030839, 220264658>>

\* The series' terms from t = f^(k-1)/(k-1)! on, in units of 1 / (10 * Scale).
RECURSIVE ExpTerms(_, _, _)
ExpTerms(t, f, k) ==
    IF t = 0 THEN 0
    ELSE t + ExpTerms((t * f + (Scale * k) \div 2) \div (Scale * k), f, k + 1)

ExpFrac(f) == (ExpTerms(10 * Scale, f, 1) + 5) \div 10

Exp(y) ==
    IF y = NaN THEN NaN
    ELSE IF y = PInf THEN PInf
    ELSE IF y = NInf THEN 0
    ELSE LET n == y \div Scale
             f == y % Scale
         IN  IF n = 0 THEN ExpFrac(f)
             ELSE IF n > 0
                  THEN (IF n > Len(ExpPosTable) THEN PInf
                        ELSE MulAbs(ExpPosTable[n], ExpFrac(f)))
             ELSE IF -n > Len(ExpNegTable) THEN 0
             ELSE (MulAbs(ExpNegTable[-n], ExpFrac(f)) + 50) \div 100

\* base.powf(t) for a base > 0: e^(t ln base).
Powf(base, t) == Exp(FMul(t, Ln(base)))

(***************************************************************************)
(* f32::sin and f32::cos: the argument reduced to [-pi, pi], then the      *)
(* series.                                                                 *)
(***************************************************************************)
\* pi in units of 1 / Scale.
Pi == 31416

Reduce(z) == ((z + Pi) % (2 * Pi)) - Pi

\* The series' terms from t on (t >= 0 the size of the term, sgn its sign),
\* the next term being t * z2 / (k (k + 1)).
RECURSIVE TrigTerms(_, _, _, _)
TrigTerms(t, sgn, z2, k) ==
    IF t = 0 THEN 0
    ELSE sgn * t
         + TrigTerms((MulAbs(t, z2) + (k * (k + 1)) \div 2) \div (k * (k + 1)),
                     -sgn, z2, k + 2)

Sin(z) ==
    IF ~is_finite(z) THEN NaN
    ELSE LET r == Reduce(z)
         IN  SignInt(r) * TrigTerms(AbsInt(r), 1, MulAbs(AbsInt(r), AbsInt(r)), 2)

Cos(z) ==
    IF ~is_finite(z) THEN NaN
    ELSE LET r == AbsInt(Reduce(z))
         IN  TrigTerms(Scale, 1, MulAbs(r, r), 1)

(***************************************************************************)
(* friction.rs                                                             *)
(***************************************************************************)
Friction_new(drag) == [x |-> 0, v |-> 0, drag |-> drag, ln_drag |-> Ln(drag)]

Friction_set(f, x, v) == [f EXCEPT !.x = x, !.v = v]

\* std::f32::EPSILON (1.1920929e-7) is below one grid step: on the grid,
\* |p - x| < f32::EPSILON exactly when |p - x| < 1 step, that is when p = x.
F32_EPSILON == 1

time_for_position(f, p) ==
    IF FLt(FAbs(FSub(p, f.x)), F32_EPSILON)
    THEN 0
    ELSE FDiv(Ln(FDiv(FAdd(FMul(FSub(p, f.x), f.ln_drag), f.v), f.v)), f.ln_drag)

Friction_x(f, time) ==
    FSub(FAdd(f.x, FDiv(FMul(f.v, Powf(f.drag, time)), f.ln_drag)),
         FDiv(f.v, f.ln_drag))

Friction_dx(f, time) == FMul(f.v, Powf(f.drag, time))

Friction_is_done(f, time) == FLt(FAbs(Friction_dx(f, time)), Num(1, 0))

(***************************************************************************)
(* spring.rs: SpringSolution                                               *)
(***************************************************************************)
Snapped == [kind |-> "Snapped"]

solve(damping, mass, spring_constant, initial, velocity) ==
    LET cmk == FSub(FMul(damping, damping),
                    FMul(FMul(Num(4, 0), mass), spring_constant))
    IN  IF FGt(cmk, 0)
        THEN \* Overdamped
             LET r1 == FDiv(FSub(FNeg(damping), Sqrt(cmk)), FMul(Num(2, 0), mass))
                 r2 == FDiv(FAdd(FNeg(damping), Sqrt(cmk)), FMul(Num(2, 0), mass))
                 c2 == FDiv(FSub(velocity, FMul(r1, initial)), FSub(r2, r1))
                 c1 == FSub(initial, c2)
             IN  [kind |-> "Overdamped", r1 |-> r1, r2 |-> r2, c1 |-> c1, c2 |-> c2]
        ELSE IF FLt(cmk, 0)
        THEN \* Underdamped
             LET w == FDiv(Sqrt(FSub(FMul(FMul(Num(4, 0), mass), spring_constant),
                                     FMul(damping, damping))),
                           FMul(Num(2, 0), mass))
                 r == FNeg(FMul(FDiv(damping, Num(2, 0)), mass))
                 c1 == initial
                 c2 == FDiv(FSub(velocity, FMul(r, initial)), w)
             IN  [kind |-> "Underdamped", w |-> w, r |-> r, c1 |-> c1, c2 |-> c2]
        ELSE \* Equal (or not comparable): critically damped
             LET r == FDiv(FNeg(damping), FMul(Num(2, 0), mass))
                 c1 == initial
                 c2 == FDiv(velocity, FMul(r, initial))
             IN  [kind |-> "CriticallyDamped", r |-> r, c1 |-> c1, c2 |-> c2]

SpringSolution_x(sol, time) ==
    CASE sol.kind = "Overdamped" ->
            FAdd(FMul(sol.c1, Exp(FMul(sol.r1, time))),
                 FMul(sol.c2, Exp(FMul(sol.r2, time))))
      [] sol.kind = "CriticallyDamped" ->
            FMul(FAdd(sol.c1, FMul(sol.c2, time)), Exp(FMul(sol.r, time)))
      [] sol.kind = "Underdamped" ->
            FMul(Exp(FMul(sol.r, time)),
                 FAdd(FMul(sol.c1, Cos(FMul(sol.w, time))),
                      FMul(sol.c2, Sin(FMul(sol.w, time)))))
      [] sol.kind = "Snapped" -> 0

SpringSolution_dx(sol, time) ==
    CASE sol.kind = "Overdamped" ->
            FAdd(FMul(FMul(sol.c1, sol.r1), Exp(FMul(sol.r1, time))),
                 FMul(FMul(sol.c2, sol.r2), Exp(FMul(sol.r2, time))))
      [] sol.kind = "CriticallyDamped" ->
            LET pow == Exp(FMul(sol.r, time))
            IN  FAdd(FMul(FMul(sol.r, FAdd(sol.c1, FMul(sol.c2, time))), pow),
                     FMul(sol.c2, pow))
      [] sol.kind = "Underdamped" ->
            LET pow == Exp(FMul(sol.r, time))
                cos == Cos(FMul(sol.w, time))
                sin == Sin(FMul(sol.w, time))
            IN  FAdd(FMul(pow, FSub(FMul(FMul(sol.c2, sol.w), cos),
                                    FMul(FMul(sol.c1, sol.w), sin))),
                     FMul(FMul(sol.r, pow),
                          FAdd(FMul(sol.c2, sin), FMul(sol.c1, cos))))
      [] sol.kind = "Snapped" -> 0

(***************************************************************************)
(* spring.rs: Spring                                                       *)
(***************************************************************************)
\* 0.001
EPSILON == 10

almost_equal(a, b, epsilon) == FGt(a, FSub(b, epsilon)) /\ FLt(a, FAdd(b, epsilon))

almost_zero(a, epsilon) == almost_equal(a, 0, epsilon)

Spring_new(mass, spring_constant, damping) ==
    [mass |-> mass, spring_constant |-> spring_constant, damping |-> damping,
     end |-> 0, solution |-> Snapped, start_time |-> 0]

\* Spring::set starting afresh from the anchor at any time, the solution in
\* flight never looked at.
Spring_set_fresh(s, x, velocity, time) ==
    IF almost_equal(x, s.end, EPSILON) /\ almost_zero(velocity, EPSILON)
    THEN s
    ELSE IF almost_zero(FSub(s.end, x), EPSILON) /\ almost_zero(velocity, EPSILON)
    THEN s
    ELSE [s EXCEPT
            !.solution = solve(s.damping, s.mass, s.spring_constant,
                               FSub(s.end, x), velocity),
            !.end = x,
            !.start_time = time]

\* Spring::set without its first early return: a request to go where the
\* spring is already going is looked at as any other.
Spring_set_always(s, x, velocity, time) ==
    LET pos == IF FLe(time, 0) THEN s.end
               ELSE FAdd(s.end, SpringSolution_x(s.solution, FSub(time, s.start_time)))
        vel == IF FLe(time, 0) THEN velocity
               ELSE FAdd(velocity,
                         SpringSolution_dx(s.solution, FSub(time, s.start_time)))
    IN  IF almost_zero(FSub(pos, x), EPSILON) /\ almost_zero(vel, EPSILON)
        THEN s
        ELSE [s EXCEPT
                !.solution = solve(s.damping, s.mass, s.spring_constant,
                                   FSub(pos, x), vel),
                !.end = x,
                !.start_time = time]

Spring_set(s, x, velocity, time) ==
    IF almost_equal(x, s.end, EPSILON) /\ almost_zero(velocity, EPSILON)
    THEN s
    ELSE LET pos == IF FLe(time, 0) THEN s.end
                    ELSE FAdd(s.end,
                              SpringSolution_x(s.solution, FSub(time, s.start_time)))
             vel == IF FLe(time, 0) THEN velocity
                    ELSE FAdd(velocity,
                              SpringSolution_dx(s.solution, FSub(time, s.start_time)))
         IN  IF almost_zero(FSub(pos, x), EPSILON) /\ almost_zero(vel, EPSILON)
             THEN s
             ELSE [s EXCEPT
                     !.solution = solve(s.damping, s.mass, s.spring_constant,
                                        FSub(pos, x), vel),
                     !.end = x,
                     !.start_time = time]

\* Spring::snap that moves the anchor and keeps the solution in flight.
Spring_snap_keep(s, x) == [s EXCEPT !.end = x, !.start_time = 0]

Spring_snap(s, x) == [s EXCEPT !.end = x, !.start_time = 0, !.solution = Snapped]

Spring_x(s, time) == FAdd(s.end, SpringSolution_x(s.solution, FSub(time, s.start_time)))

\* Spring::dx reading the solution at the global time, not the time since
\* the solution started.
Spring_dx_global(s, time) == SpringSolution_dx(s.solution, time)

Spring_dx(s, time) == SpringSolution_dx(s.solution, FSub(time, s.start_time))

Spring_is_done(s, time) ==
    /\ almost_equal(Spring_x(s, time), s.end, EPSILON)
    /\ almost_zero(Spring_dx(s, time), EPSILON)

(***************************************************************************)
(* scroll.rs                                                               *)
(***************************************************************************)
Scroll_new(extent) ==
    [extent |-> extent,
     friction |-> Friction_new(Num(0, 100)),
     spring |-> Spring_new(Num(1, 0), Num(90, 0), Num(20, 0)),
     spring_time |-> NaN]

\* Scroll::set asking, as Pager::set does, for a crossing time that is finite
\* and positive before it hands off to the spring.
Scroll_set_positive(sc, x, v) ==
    LET friction == Friction_set(sc.friction, x, v)
        time_to_zero == time_for_position(friction, 0)
        time_to_extent == time_for_position(friction, FNeg(sc.extent))
        crossing == IF FGe(v, 0) THEN time_to_zero ELSE time_to_extent
        bound == IF FGe(v, 0) THEN 0 ELSE FNeg(sc.extent)
    IN  IF FGt(x, 0) /\ (~is_finite(time_to_zero) \/ FLt(time_to_zero, 0))
        THEN [sc EXCEPT
                !.friction = friction,
                !.spring_time = 0,
                !.spring = Spring_set(Spring_snap(sc.spring, x), 0, v, 0)]
        ELSE IF FLt(x, FNeg(sc.extent))
                /\ (~is_finite(time_to_extent) \/ FLt(time_to_extent, 0))
        THEN [sc EXCEPT
                !.friction = friction,
                !.spring_time = 0,
                !.spring = Spring_set(Spring_snap(sc.spring, x), FNeg(sc.extent), v, 0)]
        ELSE IF is_finite(crossing) /\ FGt(crossing, 0)
        THEN [sc EXCEPT
                !.friction = friction,
                !.spring_time = crossing,
                !.spring = Spring_set(Spring_snap(sc.spring, bound), bound,
                                      Friction_dx(friction, crossing), crossing)]
        ELSE [sc EXCEPT !.friction = friction, !.spring_time = NaN]

Scroll_set(sc, x, v) ==
    LET friction == Friction_set(sc.friction, x, v)
        time_to_zero == time_for_position(friction, 0)
        time_to_extent == time_for_position(friction, FNeg(sc.extent))
    IN  IF FGt(x, 0) /\ (~is_finite(time_to_zero) \/ FLt(time_to_zero, 0))
        THEN [sc EXCEPT
                !.friction = friction,
                !.spring_time = 0,
                !.spring = Spring_set(Spring_snap(sc.spring, x), 0, v, 0)]
        ELSE IF FLt(x, FNeg(sc.extent))
                /\ (~is_finite(time_to_extent) \/ FLt(time_to_extent, 0))
        THEN [sc EXCEPT
                !.friction = friction,
                !.spring_time = 0,
                !.spring = Spring_set(Spring_snap(sc.spring, x), FNeg(sc.extent), v, 0)]
        ELSE IF FGe(v, 0)
        THEN [sc EXCEPT
                !.friction = friction,
                !.spring_time = time_to_zero,
                !.spring = Spring_set(Spring_snap(sc.spring, 0), 0,
                                      Friction_dx(friction, time_to_zero),
                                      time_to_zero)]
        ELSE [sc EXCEPT
                !.friction = friction,
                !.spring_time = time_to_extent,
                !.spring = Spring_set(Spring_snap(sc.spring, FNeg(sc.extent)),
                                      FNeg(sc.extent),
                                      Friction_dx(friction, time_to_extent),
                                      time_to_extent)]

\* Scroll::in_spring with the comparison the wrong way round.
Scroll_in_spring_before(sc, time) ==
    is_finite(sc.spring_time) /\ FLe(time, sc.spring_time)

Scroll_in_spring(sc, time) == is_finite(sc.spring_time) /\ FGe(time, sc.spring_time)

Scroll_x(sc, time) ==
    IF Scroll_in_spring(sc, time) THEN Spring_x(sc.spring, time)
    ELSE Friction_x(sc.friction, time)

Scroll_dx(sc, time) ==
    IF Scroll_in_spring(sc, time) THEN Spring_dx(sc.spring, time)
    ELSE Friction_dx(sc.friction, time)

Scroll_is_done(sc, time) ==
    IF Scroll_in_spring(sc, time) THEN Spring_is_done(sc.spring, time)
    ELSE Friction_is_done(sc.friction, time)

(***************************************************************************)
(* pager.rs                                                                *)
(***************************************************************************)
SnapPoint(value, snap) == [value |-> value, snap |-> snap]

\* snaps.sort_by(sort_predicate): a stable sort by value; p is put behind
\* every point of the sorted sequence that is not greater.
RECURSIVE SortedInsert(_, _)
SortedInsert(sorted, p) ==
    IF sorted = <<>> THEN <<p>>
    ELSE IF FLt(p.value, Head(sorted).value) THEN <<p>> \o sorted
    ELSE <<Head(sorted)>> \o SortedInsert(Tail(sorted), p)

RECURSIVE SortByValue(_)
SortByValue(points) ==
    IF points = <<>> THEN <<>>
    ELSE SortedInsert(SortByValue(SubSeq(points, 1, Len(points) - 1)),
                      points[Len(points)])

Pager_new(snap_points) ==
    [snap_points |-> SortByValue(snap_points),
     friction |-> Friction_new(Num(0, 100)),
     spring |-> Spring_new(Num(1, 0), Num(90, 0), Num(20, 0)),
     spring_time |-> NaN]

\* The scan of query taking a point at x itself for a point above x.
RECURSIVE QueryScan_above(_, _, _, _, _)
QueryScan_above(points, i, x, less_than, greater_than) ==
    IF i > Len(points) THEN [less_than |-> less_than, greater_than |-> greater_than]
    ELSE LET snap == points[i]
         IN  IF FGe(snap.value, x)
             THEN QueryScan_above(points, i + 1, x, less_than,
                                  IF greater_than = <<>> THEN <<snap>>
                                  ELSE IF FGt(greater_than[1].value, snap.value)
                                       THEN <<snap>>
                                       ELSE greater_than)
             ELSE QueryScan_above(points, i + 1, x,
                                  IF less_than = <<>> THEN <<snap>>
                                  ELSE IF FGt(snap.value, less_than[1].value)
                                       THEN <<snap>>
                                       ELSE less_than,
                                  greater_than)

\* The for_each of query from point i on; an Option is <<>> (None) or <<p>>.
RECURSIVE QueryScan(_, _, _, _, _)
QueryScan(points, i, x, less_than, greater_than) ==
    IF i > Len(points) THEN [less_than |-> less_than, greater_than |-> greater_than]
    ELSE LET snap == points[i]
         IN  IF FGt(snap.value, x)
             THEN QueryScan(points, i + 1, x, less_than,
                            IF greater_than = <<>> THEN <<snap>>
                            ELSE IF FGt(greater_than[1].value, snap.value)
                                 THEN <<snap>>
                                 ELSE greater_than)
             ELSE QueryScan(points, i + 1, x,
                            IF less_than = <<>> THEN <<snap>>
                            ELSE IF FGt(snap.value, less_than[1].value)
                                 THEN <<snap>>
                                 ELSE less_than,
                            greater_than)

Pager_query(pg, x) ==
    LET found == QueryScan(pg.snap_points, 1, x, <<>>, <<>>)
        less_than == found.less_than
        greater_than == found.greater_than
    IN  IF less_than # <<>> /\ greater_than # <<>>
        THEN [kind |-> "Between", a |-> less_than[1], b |-> greater_than[1]]
        ELSE IF less_than # <<>>
        THEN [kind |-> "Beyond", extent |-> less_than[1]]
        ELSE IF greater_than # <<>>
        THEN [kind |-> "Beyond", extent |-> greater_than[1]]
        ELSE [kind |-> "Beyond", extent |-> SnapPoint(0, TRUE)]

\* self.spring_time = 0.0; self.spring.snap(x); self.spring.set(target, v, 0.0)
SpringNow(pg, x, target, v) ==
    [pg EXCEPT !.spring_time = 0,
               !.spring = Spring_set(Spring_snap(pg.spring, x), target, v, 0)]

\* self.spring_time = t; self.spring.snap(point);
\* self.spring.set(point, self.friction.dx(self.spring_time), self.spring_time)
\* The handoff giving the spring the velocity of the release, not the
\* velocity the friction has left at the handoff.
SpringAt_release(pg, point, t) ==
    [pg EXCEPT !.spring_time = t,
               !.spring = Spring_set(Spring_snap(pg.spring, point), point,
                                     pg.friction.v, t)]

SpringAt(pg, point, t) ==
    [pg EXCEPT !.spring_time = t,
               !.spring = Spring_set(Spring_snap(pg.spring, point), point,
                                     Friction_dx(pg.friction, t), t)]

\* Pager::set taking any finite time to the extent, a past one too, for the
\* friction coming back within bounds.
Pager_set_finite(pager, x, v) ==
    LET pg == [pager EXCEPT !.friction = Friction_set(pager.friction, x, v)]
        snap_query == Pager_query(pg, x)
    IN  IF snap_query.kind = "Beyond" /\ ~snap_query.extent.snap
        THEN LET value == snap_query.extent.value
                 time_to_extent == time_for_position(pg.friction, value)
             IN  IF is_finite(time_to_extent)
                 THEN [pg EXCEPT !.spring_time = NaN]
                 ELSE SpringNow(pg, x, value, v)
        ELSE IF snap_query.kind = "Beyond"
        THEN SpringNow(pg, x, snap_query.extent.value, v)
        ELSE IF snap_query.a.snap /\ snap_query.b.snap
        THEN LET a == snap_query.a.value
                 b == snap_query.b.value
                 end_point == Friction_x(pg.friction, Num(10000, 0))
                 a_dist == FAbs(FSub(a, end_point))
                 b_dist == FAbs(FSub(b, end_point))
                 snap_target == IF FLt(a_dist, b_dist) THEN a ELSE b
             IN  SpringNow(pg, x, snap_target, v)
        ELSE LET a == snap_query.a.value
                 b == snap_query.b.value
                 time_to_a == time_for_position(pg.friction, a)
                 time_to_b == time_for_position(pg.friction, b)
             IN  IF is_finite(time_to_a) /\ FGt(time_to_a, 0)
                 THEN SpringAt(pg, a, time_to_a)
                 ELSE IF is_finite(time_to_b) /\ FGt(time_to_b, 0)
                 THEN SpringAt(pg, b, time_to_b)
                 ELSE [pg EXCEPT !.spring_time = NaN]


\* Pager::set snapping to the point nearest to where the release is, not to
\* where the friction would come to rest.
Pager_set_nearest(pager, x, v) ==
    LET pg == [pager EXCEPT !.friction = Friction_set(pager.friction, x, v)]
        snap_query == Pager_query(pg, x)
    IN  IF snap_query.kind = "Beyond" /\ ~snap_query.extent.snap
        THEN LET value == snap_query.extent.value
                 time_to_extent == time_for_position(pg.friction, value)
             IN  IF is_finite(time_to_extent) /\ FGt(time_to_extent, 0)
                 THEN [pg EXCEPT !.spring_time = NaN]
                 ELSE SpringNow(pg, x, value, v)
        ELSE IF snap_query.kind = "Beyond"
        THEN SpringNow(pg, x, snap_query.extent.value, v)
        ELSE IF snap_query.a.snap /\ snap_query.b.snap
        THEN LET a == snap_query.a.value
                 b == snap_query.b.value
                 end_point == x
                 a_dist == FAbs(FSub(a, end_point))
                 b_dist == FAbs(FSub(b, end_point))
                 snap_target == IF FLt(a_dist, b_dist) THEN a ELSE b
             IN  SpringNow(pg, x, snap_target, v)
        ELSE LET a == snap_query.a.value
                 b == snap_query.b.value
                 time_to_a == time_for_position(pg.friction, a)
                 time_to_b == time_for_position(pg.friction, b)
             IN  IF is_finite(time_to_a) /\ FGt(time_to_a, 0)
                 THEN SpringAt(pg, a, time_to_a)
                 ELSE IF is_finite(time_to_b) /\ FGt(time_to_b, 0)
                 THEN SpringAt(pg, b, time_to_b)
                 ELSE [pg EXCEPT !.spring_time = NaN]

Pager_set(pager, x, v) ==
    LET pg == [pager EXCEPT !.friction = Friction_set(pager.friction, x, v)]
        snap_query == Pager_query(pg, x)
    IN  IF snap_query.kind = "Beyond" /\ ~snap_query.extent.snap
        THEN LET value == snap_query.extent.value
                 time_to_extent == time_for_position(pg.friction, value)
             IN  IF is_finite(time_to_extent) /\ FGt(time_to_extent, 0)
                 THEN [pg EXCEPT !.spring_time = NaN]
                 ELSE SpringNow(pg, x, value, v)
        ELSE IF snap_query.kind = "Beyond"
        THEN SpringNow(pg, x, snap_query.extent.value, v)
        ELSE IF snap_query.a.snap /\ snap_query.b.snap
        THEN LET a == snap_query.a.value
                 b == snap_query.b.value
                 end_point == Friction_x(pg.friction, Num(10000, 0))
                 a_dist == FAbs(FSub(a, end_point))
                 b_dist == FAbs(FSub(b, end_point))
                 snap_target == IF FLt(a_dist, b_dist) THEN a ELSE b
             IN  SpringNow(pg, x, snap_target, v)
        ELSE LET a == snap_query.a.value
                 b == snap_query.b.value
                 time_to_a == time_for_position(pg.friction, a)
                 time_to_b == time_for_position(pg.friction, b)
             IN  IF is_finite(time_to_a) /\ FGt(time_to_a, 0)
                 THEN SpringAt(pg, a, time_to_a)
                 ELSE IF is_finite(time_to_b) /\ FGt(time_to_b, 0)
                 THEN SpringAt(pg, b, time_to_b)
                 ELSE [pg EXCEPT !.spring_time = NaN]

Pager_in_spring(pg, time) == is_finite(pg.spring_time) /\ FGe(time, pg.spring_time)

Pager_x(pg, time) ==
    IF Pager_in_spring(pg, time) THEN Spring_x(pg.spring, time)
    ELSE Friction_x(pg.friction, time)

Pager_dx(pg, time) ==
    IF Pager_in_spring(pg, time) THEN Spring_dx(pg.spring, time)
    ELSE Friction_dx(pg.friction, time)

Pager_is_done(pg, time) ==
    IF Pager_in_spring(pg, time) THEN Spring_is_done(pg.spring, time)
    ELSE Friction_is_done(pg.friction, time)

Pager_jump_to(pg, position, time) ==
    LET x == Pager_x(pg, time)
        dx == Pager_dx(pg, time)
    IN  SpringNow(pg, x, position, dx)

(***************************************************************************)
(* The state machine.  A behaviour constructs one object (focus says of    *)
(* which type) and then calls its mutators; obs records the last call and  *)
(* its arguments.  The queries x, dx, is_done, time_for_position and       *)
(* Pager::query take &self and change nothing: they are the operators      *)
(* above, applied to the state the mutators left.                          *)
(***************************************************************************)
VARIABLES
    focus,      \* the type whose object this behaviour exercises
    friction,   \* a Friction
    spring,     \* a Spring
    scroll,     \* a Scroll
    pager,      \* a Pager
    obs,        \* the last call: [op, its arguments]
    ops         \* the calls so far that build on the state earlier calls left

vars == <<focus, friction, spring, scroll, pager, obs, ops>>

\* Spring::set, Pager::set and Pager::jump_to build on the state the calls
\* before them left: a behaviour makes at most MaxOps of them.
MaxOps == 2

Foci == {"Friction", "SpringSolution", "Spring", "Scroll", "Pager", "SnapQuery"}

\* The times the queries are made at.
Times == {0, Num(0, 2500), Num(0, 5000), Num(1, 0), Num(3, 0)}

\* The arguments the calls are given.
Drags == {Num(0, 100), Num(0, 1000)}
FrictionXs == {0, Num(5, 0)}
FrictionVs == {0, Num(10, 0), Num(-10, 0)}
FrictionPs == {0, Num(1, 0), Num(3, 0), Num(5, 0), Num(10, 0), Num(0, -1000),
               Num(-1, 0), Num(7, 0)}

\* <<mass, spring_constant, damping>> of a Spring: overdamped (the one Scroll
\* and Pager use) and underdamped (the one of tests/spring.rs).
SpringParams ==
    {<<Num(1, 0), Num(90, 0), Num(20, 0)>>,
     <<Num(1, 0), Num(400, 0), Num(10, 0)>>}
\* What solve is given: those, an underdamped one of mass 2, and two
\* critically damped ones (with them c2 = velocity / (r * initial) leaves the
\* range of the grid when a Spring is set again close to its anchor, so that
\* no Spring is given them).
SolveParams ==
    SpringParams \cup {<<Num(2, 0), Num(100, 0), Num(4, 0)>>,
                       <<Num(1, 0), Num(100, 0), Num(20, 0)>>,
                       <<Num(2, 0), Num(50, 0), Num(20, 0)>>}
SolveInitials == {0, Num(10, 0), Num(-50, 0), Num(0, 5)}
SolveVelocities == {0, Num(5, 0), Num(-200, 0), Num(0, 5)}

\* <<x, velocity, time>> of Spring::set.
SpringSetArgs ==
    {<<0, 0, 0>>, <<Num(0, 5), 0, 0>>, <<0, Num(0, 5), 0>>, <<0, Num(0, 10), 0>>,
     <<Num(100, 0), 0, 0>>, <<Num(100, 0), Num(5, 0), 0>>,
     <<Num(100, 5), Num(0, -5), Num(0, 5000)>>, <<0, Num(5, 0), Num(0, 5000)>>,
     <<Num(100, 0), 0, Num(0, 5000)>>}
SpringSnapArgs == {0, Num(100, 0), Num(-7, 5000)}

ScrollExtents == {Num(1000, 0), Num(100, 0)}
ScrollXs == {0, Num(0, 1), Num(50, 0), Num(-50, 0), Num(-900, 0), Num(-1050, 0)}
ScrollVs == {0, Num(200, 0), Num(500, 0), Num(-200, 0), Num(-500, 0),
             Num(-1000, 0)}

PointLists ==
    {<<SnapPoint(0, FALSE), SnapPoint(Num(-1000, 0), FALSE)>>,
     <<SnapPoint(Num(-200, 0), TRUE), SnapPoint(0, TRUE), SnapPoint(Num(-100, 0), TRUE)>>,
     <<SnapPoint(Num(-100, 0), FALSE), SnapPoint(0, TRUE)>>,
     <<>>}
\* <<x, v>> of Pager::set.
PagerSetArgs ==
    {<<Num(50, 0), Num(-500, 0)>>, <<Num(50, 0), Num(200, 0)>>,
     <<Num(-50, 0), Num(500, 0)>>, <<Num(-50, 0), Num(-5000, 0)>>,
     <<Num(-50, 0), Num(200, 0)>>, <<Num(-50, 0), Num(-200, 0)>>,
     <<Num(-50, 0), Num(-500, 0)>>, <<Num(-50, 0), 0>>,
     <<0, 0>>, <<0, Num(200, 0)>>, <<Num(-100, 5), 0>>,
     <<Num(-150, 0), Num(200, 0)>>, <<Num(-150, 0), Num(500, 0)>>}
\* x of Pager::query: on the points, between them and beyond them.
PagerQueryXs ==
    {0, Num(-100, 0), Num(-200, 0), Num(-1000, 0), Num(-50, 0), Num(-150, 0),
     Num(50, 0), Num(-1050, 0), Num(0, 1)}
\* <<position, time>> of Pager::jump_to.
PagerJumpArgs == {<<0, 0>>, <<Num(-100, 0), Num(0, 5000)>>}

Init ==
    /\ focus \in Foci
    /\ friction \in {Friction_new(drag) :
                        drag \in IF focus = "Friction" THEN Drags ELSE {Num(0, 100)}}
    /\ spring \in {Spring_new(p[1], p[2], p[3]) :
                      p \in IF focus = "Spring" THEN SpringParams
                            ELSE {<<Num(1, 0), Num(90, 0), Num(20, 0)>>}}
    /\ scroll \in {Scroll_new(extent) :
                      extent \in IF focus = "Scroll" THEN ScrollExtents
                                 ELSE {Num(1000, 0)}}
    /\ pager \in {Pager_new(points) :
                      points \in IF focus \in {"Pager", "SnapQuery"} THEN PointLists
                                 ELSE {<<>>}}
    /\ obs = [op |-> "new"]
    /\ ops = 0

FrictionSet(x, v) ==
    /\ focus = "Friction"
    /\ friction' = Friction_set(friction, x, v)
    /\ obs' = [op |-> "Friction.set", x |-> x, v |-> v]
    /\ UNCHANGED <<focus, spring, scroll, pager, ops>>

Solve(damping, mass, spring_constant, initial, velocity) ==
    /\ focus = "SpringSolution"
    /\ obs' = [op |-> "SpringSolution.solve",
               damping |-> damping, mass |-> mass,
               spring_constant |-> spring_constant,
               initial |-> initial, velocity |-> velocity,
               solution |-> solve(damping, mass, spring_constant, initial, velocity)]
    /\ UNCHANGED <<focus, friction, spring, scroll, pager, ops>>

\* Time does not run backwards: a spring is set at or after the start of the
\* solution it has (there the solution stays within the range of the grid).
SpringSet(x, velocity, time) ==
    /\ focus = "Spring"
    /\ ops < MaxOps
    /\ time >= spring.start_time
    /\ spring' = Spring_set(spring, x, velocity, time)
    /\ obs' = [op |-> "Spring.set", x |-> x, velocity |-> velocity, time |-> time,
               before |-> spring]
    /\ ops' = ops + 1
    /\ UNCHANGED <<focus, friction, scroll, pager>>

SpringSnap(x) ==
    /\ focus = "Spring"
    /\ spring' = Spring_snap(spring, x)
    /\ obs' = [op |-> "Spring.snap", x |-> x, before |-> spring]
    /\ UNCHANGED <<focus, friction, scroll, pager, ops>>

ScrollSet(x, v) ==
    /\ focus = "Scroll"
    /\ scroll' = Scroll_set(scroll, x, v)
    /\ obs' = [op |-> "Scroll.set", x |-> x, v |-> v]
    /\ UNCHANGED <<focus, friction, spring, pager, ops>>

PagerSet(x, v) ==
    /\ focus = "Pager"
    /\ ops < MaxOps
    /\ pager' = Pager_set(pager, x, v)
    /\ obs' = [op |-> "Pager.set", x |-> x, v |-> v]
    /\ ops' = ops + 1
    /\ UNCHANGED <<focus, friction, spring, scroll>>

\* obs keeps what the pager reported at time right before the call.
PagerJumpTo(position, time) ==
    /\ focus = "Pager"
    /\ ops < MaxOps
    /\ pager' = Pager_jump_to(pager, position, time)
    /\ obs' = [op |-> "Pager.jump_to", position |-> position, time |-> time,
               x |-> Pager_x(pager, time), dx |-> Pager_dx(pager, time)]
    /\ ops' = ops + 1
    /\ UNCHANGED <<focus, friction, spring, scroll>>

PagerQuery(x) ==
    /\ focus = "SnapQuery"
    /\ obs' = [op |-> "Pager.query", x |-> x, result |-> Pager_query(pager, x)]
    /\ UNCHANGED <<focus, friction, spring, scroll, pager, ops>>

Next ==
    \/ \E x \in FrictionXs, v \in FrictionVs : FrictionSet(x, v)
    \/ \E p \in SolveParams, initial \in SolveInitials, velocity \in SolveVelocities :
          Solve(p[3], p[1], p[2], initial, velocity)
    \/ \E a \in SpringSetArgs : SpringSet(a[1], a[2], a[3])
    \/ \E x \in SpringSnapArgs : SpringSnap(x)
    \/ \E x \in ScrollXs, v \in ScrollVs : ScrollSet(x, v)
    \/ \E a \in PagerSetArgs : PagerSet(a[1], a[2])
    \/ \E a \in PagerJumpArgs : PagerJumpTo(a[1], a[2])
    \/ \E x \in PagerQueryXs : PagerQuery(x)

Spec == Init /\ [][Next]_vars

(***************************************************************************)
(* The properties.  Values on the grid carry the rounding of the grid:     *)
(* two values are near when they differ by less than the EPSILON the       *)
(* program itself takes for "equal".                                       *)
(***************************************************************************)
Near(a, b) == is_finite(a) /\ is_finite(b) /\ AbsInt(a - b) < EPSILON

\* A time is known to one step of the grid: two positions at that time are
\* near when they differ by less than EPSILON plus the way made at speed v
\* during one step of time.
NearAt(a, b, v) ==
    is_finite(a) /\ is_finite(b) /\ is_finite(v)
    /\ AbsInt(a - b) < EPSILON + AbsInt(v) \div Scale

\* The spring takes over from the friction at time T without a jump.
Continuous(f, s, T) ==
    /\ NearAt(Friction_x(f, T), Spring_x(s, T), Friction_dx(f, T))
    /\ Near(Friction_dx(f, T), Spring_dx(s, T))

\* The end-to-end example: a Scroll of extent 1000 after set(0, 500).
C1_Case ==
    /\ focus = "Scroll"
    /\ obs.op = "Scroll.set"
    /\ scroll.extent = Num(1000, 0)
    /\ obs.x = 0
    /\ obs.v = Num(500, 0)

C2_Continuity ==
    /\ (focus = "Scroll" /\ obs.op = "Scroll.set" /\ is_finite(scroll.spring_time))
          => Continuous(scroll.friction, scroll.spring, scroll.spring_time)
    /\ (focus = "Pager" /\ obs.op = "Pager.set" /\ is_finite(pager.spring_time))
          => Continuous(pager.friction, pager.spring, pager.spring_time)

\* A Pager.set whose handoff lies ahead, the spring taking a speed over there.
C2_Witness ==
    /\ focus = "Pager"
    /\ obs.op = "Pager.set"
    /\ is_finite(pager.spring_time)
    /\ pager.spring_time > 0
    /\ pager.spring.solution.kind = "Overdamped"
    /\ AbsInt(Spring_dx(pager.spring, pager.spring_time)) > Num(100, 0)

\* C3: in each of the three regimes the solution solve returns reproduces its
\* inputs at local time 0: x(0) = positionOffset and dx(0) = velocity.
C3_Reproduces ==
    obs.op = "SpringSolution.solve" =>
        /\ Near(SpringSolution_x(obs.solution, 0), obs.initial)
        /\ Near(SpringSolution_dx(obs.solution, 0), obs.velocity)

\* The friction gets back to p at a finite time that is still to come.
Returns(f, p) ==
    LET T == time_for_position(f, p) IN is_finite(T) /\ FGt(T, 0)

\* The spring is active from t = 0 on, anchored at target, and starts from
\* position x with velocity v.  (A release at rest within EPSILON of the
\* target leaves the spring snapped where the release is.)
SpringsNow(s, spring_time, target, x, v) ==
    /\ spring_time = 0
    /\ Near(s.end, target)
    /\ Near(Spring_x(s, 0), x)
    /\ Near(Spring_dx(s, 0), v)

\* What Pager::query finds around the position of the last Pager.set.
SetQuery == Pager_query(pager, obs.x)

C4_PagerCase ==
    /\ focus = "Pager"
    /\ obs.op = "Pager.set"
    /\ SetQuery.kind = "Beyond"
    /\ ~SetQuery.extent.snap

\* The time to the bound came out as 0 for a release that is not on the
\* bound: the release is within the rounding of the bound, and one moving
\* inwards is back within bounds at once.
BackAtOnce(f, bound) ==
    /\ time_for_position(f, bound) = 0
    /\ f.x # bound
    /\ IF f.x > bound THEN FLt(f.v, 0) ELSE FGt(f.v, 0)

C5_OneWay ==
    /\ focus = "Scroll" =>
          /\ \A t \in Times :
                /\ Scroll_in_spring(scroll, t)
                      <=> (is_finite(scroll.spring_time) /\ t >= scroll.spring_time)
                /\ IF is_finite(scroll.spring_time) /\ t >= scroll.spring_time
                   THEN /\ Scroll_x(scroll, t) = Spring_x(scroll.spring, t)
                        /\ Scroll_dx(scroll, t) = Spring_dx(scroll.spring, t)
                        /\ Scroll_is_done(scroll, t) = Spring_is_done(scroll.spring, t)
                   ELSE /\ Scroll_x(scroll, t) = Friction_x(scroll.friction, t)
                        /\ Scroll_dx(scroll, t) = Friction_dx(scroll.friction, t)
                        /\ Scroll_is_done(scroll, t) = Friction_is_done(scroll.friction, t)
          /\ \A t1, t2 \in Times :
                (t1 <= t2 /\ Scroll_in_spring(scroll, t1)) => Scroll_in_spring(scroll, t2)
          /\ is_nan(scroll.spring_time) =>
                \A t \in Times : ~Scroll_in_spring(scroll, t)
    /\ focus = "Pager" =>
          /\ \A t \in Times :
                /\ Pager_in_spring(pager, t)
                      <=> (is_finite(pager.spring_time) /\ t >= pager.spring_time)
                /\ IF is_finite(pager.spring_time) /\ t >= pager.spring_time
                   THEN /\ Pager_x(pager, t) = Spring_x(pager.spring, t)
                        /\ Pager_dx(pager, t) = Spring_dx(pager.spring, t)
                        /\ Pager_is_done(pager, t) = Spring_is_done(pager.spring, t)
                   ELSE /\ Pager_x(pager, t) = Friction_x(pager.friction, t)
                        /\ Pager_dx(pager, t) = Friction_dx(pager.friction, t)
                        /\ Pager_is_done(pager, t) = Friction_is_done(pager.friction, t)
          /\ \A t1, t2 \in Times :
                (t1 <= t2 /\ Pager_in_spring(pager, t1)) => Pager_in_spring(pager, t2)
          /\ is_nan(pager.spring_time) =>
                \A t \in Times : ~Pager_in_spring(pager, t)

\* A Scroll whose handoff lies between two of the query times, the friction
\* and the spring giving different answers after it.
C5_Witness ==
    /\ focus = "Scroll"
    /\ obs.op = "Scroll.set"
    /\ \E t1, t2 \in Times :
          /\ t1 < scroll.spring_time
          /\ scroll.spring_time <= t2
          /\ ~Scroll_in_spring(scroll, t1)
          /\ Scroll_in_spring(scroll, t2)
          /\ Spring_x(scroll.spring, t2) # Friction_x(scroll.friction, t2)

C6_Case ==
    /\ focus = "Pager"
    /\ obs.op = "Pager.set"
    /\ SetQuery.kind = "Between"
    /\ SetQuery.a.snap
    /\ SetQuery.b.snap

\* C6: after Pager.set(x, v) with x between two neighbouring points a and b
\* that both snap, the pager is spring-active at t = 0, from position x with
\* velocity v, anchored at the one of a and b that is closer to where the
\* friction is at the far-future horizon; the transition time is neither NaN
\* nor positive.
C6_SnapsToCloser ==
    C6_Case =>
        LET a == SetQuery.a.value
            b == SetQuery.b.value
            end_point == Friction_x(pager.friction, Num(10000, 0))
            a_dist == AbsInt(a - end_point)
            b_dist == AbsInt(b - end_point)
        IN  /\ pager.spring_time = 0
            /\ Near(Spring_x(pager.spring, 0), obs.x)
            /\ Near(Spring_dx(pager.spring, 0), obs.v)
            /\ Near(pager.spring.end, a) \/ Near(pager.spring.end, b)
            /\ a_dist < b_dist => Near(pager.spring.end, a)
            /\ b_dist < a_dist => Near(pager.spring.end, b)

\* Released nearer to b and thrown towards a far enough to snap to a.
C6_Witness ==
    /\ C6_Case
    /\ pager.spring.end = SetQuery.a.value
    /\ AbsInt(obs.x - SetQuery.b.value) <= AbsInt(obs.x - SetQuery.a.value)
    /\ pager.spring.solution.kind = "Overdamped"

C7_Case ==
    /\ focus = "Pager"
    /\ obs.op = "Pager.set"
    /\ SetQuery.kind = "Between"
    /\ ~(SetQuery.a.snap /\ SetQuery.b.snap)

\* The handoff is at time T at point: the spring is anchored there and has
\* the velocity the friction has left at T.
HandsOffAt(pg, point, T) ==
    /\ pg.spring_time = T
    /\ pg.spring.end = point
    /\ Near(Spring_dx(pg.spring, T), Friction_dx(pg.friction, T))

\* C7: after Pager.set(x, v) with x between two neighbouring points a and b
\* that do not both snap, if the friction reaches a or b at a finite positive
\* time T, the transition time is T and the spring is anchored at that point
\* with initial velocity friction.dx(T); if it reaches neither, the transition
\* time is NaN.
C7_HandsOffAtPoint ==
    C7_Case =>
        LET a == SetQuery.a.value
            b == SetQuery.b.value
        IN  IF Returns(pager.friction, a)
            THEN HandsOffAt(pager, a, time_for_position(pager.friction, a))
            ELSE IF Returns(pager.friction, b)
            THEN HandsOffAt(pager, b, time_for_position(pager.friction, b))
            ELSE is_nan(pager.spring_time)

\* Between two points that do not snap, the friction reaching the upper one
\* well below the speed of the release.
C7_Witness ==
    /\ C7_Case
    /\ ~SetQuery.a.snap
    /\ ~SetQuery.b.snap
    /\ Returns(pager.friction, SetQuery.b.value)
    /\ pager.spring.end = SetQuery.b.value
    /\ pager.spring.solution.kind = "Overdamped"
    /\ Spring_dx(pager.spring, pager.spring_time) < obs.v - Num(100, 0)

\* A Spring.set whose target is within EPSILON of the anchor and whose
\* velocity is within EPSILON of zero.
C8_Case ==
    /\ focus = "Spring"
    /\ obs.op = "Spring.set"
    /\ almost_equal(obs.x, obs.before.end, EPSILON)
    /\ almost_zero(obs.velocity, EPSILON)

\* C8: Spring.set(target, velocity, time) leaves the anchor, the solution and
\* the start time of the solution unchanged when target is within EPSILON of
\* the anchor and velocity is within EPSILON of zero.
C8_NoOp ==
    C8_Case =>
        /\ spring.end = obs.before.end
        /\ spring.solution = obs.before.solution
        /\ spring.start_time = obs.before.start_time

\* Such a set on a spring in motion, late, with a target and a velocity that
\* are close to, not equal to, the anchor and zero.
C8_Witness ==
    /\ C8_Case
    /\ obs.before.solution # Snapped
    /\ obs.time > 0
    /\ obs.x # obs.before.end
    /\ obs.velocity # 0

\* What p is to the trajectory of the friction f.
Asymptote(f) == FSub(f.x, FDiv(f.v, f.ln_drag))
Behind(f, p) == (FGt(f.v, 0) /\ FLt(p, f.x)) \/ (FLt(f.v, 0) /\ FGt(p, f.x))
BeyondAsymptote(f, p) ==
    \/ FGt(f.v, 0) /\ FGt(p, Asymptote(f))
    \/ FLt(f.v, 0) /\ FLt(p, Asymptote(f))
Unreachable(f, p) == (f.v = 0 /\ p # f.x) \/ BeyondAsymptote(f, p)

\* C9: time_for_position(p) is 0 when p is the origin, negative when p lies
\* behind the start, NaN when p is unreachable (beyond the asymptote
\* origin - v/lnDrag, or any p but the origin when the velocity is zero) and
\* positive and finite otherwise; a Friction with zero velocity is done at
\* t = 0.
C9_Degeneracy ==
    focus = "Friction" =>
        /\ \A p \in FrictionPs :
              LET T == time_for_position(friction, p)
              IN  IF p = friction.x THEN T = 0
                  ELSE IF Unreachable(friction, p) THEN is_nan(T)
                  ELSE IF Behind(friction, p) THEN is_finite(T) /\ T < 0
                  ELSE is_finite(T) /\ T > 0
        /\ friction.v = 0 => Friction_is_done(friction, 0)

\* The spring is snapped at anchor: by its construction, by snap, or by a set
\* on a snapped spring that changed nothing.
SnappedAt(anchor) ==
    /\ focus = "Spring"
    /\ \/ obs.op = "new" /\ anchor = 0
       \/ obs.op = "Spring.snap" /\ anchor = obs.x
       \/ /\ obs.op = "Spring.set"
          /\ obs.before.solution = Snapped
          /\ spring = obs.before
          /\ anchor = obs.before.end

\* C10: a snapped spring reports x(t) = anchor, dx(t) = 0 and is_done(t) at
\* every time t >= 0; a new Spring is snapped at anchor 0.
C10_SnappedRests ==
    \A anchor \in {0, spring.end} \cup SpringSnapArgs :
        SnappedAt(anchor) =>
            \A t \in Times :
                /\ Spring_x(spring, t) = anchor
                /\ Spring_dx(spring, t) = 0
                /\ Spring_is_done(spring, t)

\* A spring in motion snapped to an anchor that is not the one it had.
C10_Witness ==
    /\ focus = "Spring"
    /\ obs.op = "Spring.snap"
    /\ obs.before.solution # Snapped
    /\ obs.x # obs.before.end
    /\ spring.end = obs.x

\* C11: queried at atTime right after Pager.jump_to(target, atTime), the
\* pager is spring-active, its x and dx are the x(atTime) and dx(atTime) it
\* reported right before the call, and the anchor of the spring is target
\* within EPSILON.
C11_JumpStartsWhereItWas ==
    (focus = "Pager" /\ obs.op = "Pager.jump_to") =>
        /\ Pager_in_spring(pager, obs.time)
        /\ Near(Pager_x(pager, obs.time), obs.x)
        /\ Near(Pager_dx(pager, obs.time), obs.dx)
        /\ Near(pager.spring.end, obs.position)

\* The points of the pager at or below x, and those above it.
PointsUpTo(x) == {i \in DOMAIN pager.snap_points : pager.snap_points[i].value <= x}
PointsAbove(x) == {i \in DOMAIN pager.snap_points : pager.snap_points[i].value > x}
PointsBelow(x) == {i \in DOMAIN pager.snap_points : pager.snap_points[i].value < x}
PointsFrom(x) == {i \in DOMAIN pager.snap_points : pager.snap_points[i].value >= x}

\* The highest and the lowest of the points at the indices I.
Highest(I) ==
    pager.snap_points[CHOOSE i \in I :
        \A j \in I : pager.snap_points[j].value <= pager.snap_points[i].value]
Lowest(I) ==
    pager.snap_points[CHOOSE i \in I :
        \A j \in I : pager.snap_points[j].value >= pager.snap_points[i].value]

\* The answer of query, with the points of lower on the one side of the
\* position and those of upper on the other.
Classified(result, lower, upper) ==
    IF lower # {} /\ upper # {}
    THEN result = [kind |-> "Between", a |-> Highest(lower), b |-> Lowest(upper)]
    ELSE IF lower # {}
    THEN result = [kind |-> "Beyond", extent |-> Highest(lower)]
    ELSE IF upper # {}
    THEN result = [kind |-> "Beyond", extent |-> Lowest(upper)]
    ELSE result = [kind |-> "Beyond", extent |-> SnapPoint(0, TRUE)]

\* C12 as the specification states it, with its tie-break (prefer the point
\* with value >= query, else the closest below): query(x) is Between the
\* closest point below x and the closest point at or above x, Beyond the
\* nearest point when the points are all on one side, and Beyond a
\* synthesized snapping point at 0 for an empty set.
C12_TieGoesUp ==
    obs.op = "Pager.query" =>
        Classified(obs.result, PointsBelow(obs.x), PointsFrom(obs.x))

\* C12, amended: query(x) is Between the closest point at or below x and the
\* closest point above x, Beyond the nearest point when the points are all on
\* one side, and Beyond a synthesized snapping point at 0 for an empty set: a
\* position on a point has that point as its lower neighbour.
C12_TieGoesDown ==
    obs.op = "Pager.query" =>
        Classified(obs.result, PointsUpTo(obs.x), PointsAbove(obs.x))

\* A query on the middle one of three points, given in another order.
C12_Witness ==
    /\ obs.op = "Pager.query"
    /\ Len(pager.snap_points) = 3
    /\ obs.x = pager.snap_points[2].value
    /\ obs.result = [kind |-> "Between", a |-> pager.snap_points[2],
                     b |-> pager.snap_points[3]]

\* Where the spring obs.before is, and how fast with the velocity of the set
\* put on top, at the time of the last Spring.set, as that set takes them.
C13_pos ==
    IF obs.time <= 0 THEN obs.before.end
    ELSE FAdd(obs.before.end,
              SpringSolution_x(obs.before.solution,
                               FSub(obs.time, obs.before.start_time)))
C13_vel ==
    IF obs.time <= 0 THEN obs.velocity
    ELSE FAdd(obs.velocity,
              SpringSolution_dx(obs.before.solution,
                                FSub(obs.time, obs.before.start_time)))

\* A Spring.set that is not a no-op: neither a target within EPSILON of the
\* anchor with a velocity within EPSILON of zero, nor a spring that is where
\* it is asked to go, at rest.
C13_Case ==
    /\ focus = "Spring"
    /\ obs.op = "Spring.set"
    /\ ~(almost_equal(obs.x, obs.before.end, EPSILON)
         /\ almost_zero(obs.velocity, EPSILON))
    /\ ~(almost_zero(FSub(C13_pos, obs.x), EPSILON) /\ almost_zero(C13_vel, EPSILON))

\* The set solved for pos - target and vel, anchored at the target, started
\* at time.
C13_Solved ==
    /\ spring.solution = solve(obs.before.damping, obs.before.mass,
                               obs.before.spring_constant,
                               FSub(C13_pos, obs.x), C13_vel)
    /\ spring.end = obs.x
    /\ spring.start_time = obs.time

C14_UnderdampedRate ==
    (obs.op = "SpringSolution.solve" /\ obs.solution.kind = "Underdamped") =>
        /\ Near(obs.solution.r,
                FDiv(FNeg(obs.damping), FMul(Num(2, 0), obs.mass)))
        /\ Near(obs.solution.w,
                FDiv(Sqrt(FSub(FMul(FMul(Num(4, 0), obs.mass), obs.spring_constant),
                               FMul(obs.damping, obs.damping))),
                     FMul(Num(2, 0), obs.mass)))

=============================================================================
